---- MODULE Spec2Model ----
(***************************************************************************)
(* Actor lifecycle and supervision engine of spinoff                       *)
(* (src/spinoff/actor/_actor.py): BaseActor (handler cells) and Actor      *)
(* (procedure cells driven by a generator body).                           *)
(*                                                                         *)
(* Everything runs on one cooperative thread, so every public call         *)
(* (spawn, start, send, pause, resume, stop, the firing of an awaited      *)
(* Deferred) is one atomic action.  A call is computed by operators that   *)
(* take the whole heap ("world" record w) and return the heap after the    *)
(* call; w.exc carries a raised exception up to the frame that catches it. *)
(***************************************************************************)
EXTENDS Integers, Sequences, FiniteSets, TLC

\* ---------------------------------------------------------------- bounds
NCells == 3            \* cells 1..NCells exist; cell 1 is spawned by the root
MaxSends == 3          \* sends issued by the environment in one run
MaxQueue == 3          \* messages a process keeps queued in one run
MaxGets == 3           \* Deferreds Process.get hands out in one run
MaxEvents == 2         \* HighWaterMarkReached events logged in one run
hwm == 2               \* Process.hwm, the high water mark of the runs

\* ------------------------------------------------------------- constants
NOT_STARTED == 0
RUNNING == 1
PAUSED == 2
STOPPED == 3

Cells == 1..NCells
Root == 0              \* the container / runner acting as parent of cell 1
NoParent == -1         \* _parent = None
NoOut == -1            \* _out = None

NoExc == "none"
Hang == "hang"         \* the call never returns
NoAwaiter == "EMPTY"       \* no filter slot: _waiting is None
NoneFilter == "None"   \* get(filter=None)

UserMsgs == {<<"foo", 1>>, <<"baz", 2>>, <<"bar", 3>>}

StoppedMsg(c) == <<"stopped", c>>
ErrorMsg(c, e) == <<"error", c, e>>

NoneResult == [k |-> "none", shape |-> "none", m |-> <<>>]
CancelledError == [k |-> "cancel", shape |-> "none", m |-> <<>>]
ExtValue == [k |-> "val", shape |-> "ext", m |-> <<>>]
ExtFailure == [k |-> "fail", shape |-> "ext", m |-> <<>>]
IsFailure(r) == r.k \in {"fail", "cancel"}

\* ------------------------------------------------------------ the bodies
Await == [op |-> "await", f |-> NoneFilter]
Raise == [op |-> "raise", f |-> NoneFilter]
Get(f) == [op |-> "get", f |-> f]
Body(s, oc, of) == [script |-> s, onClose |-> oc, onFail |-> of, handler |-> "none"]
Handler(h) == [script |-> <<>>, onClose |-> "exit", onFail |-> "raise", handler |-> h]

\* ---------------------------------------------------------------- state
VARIABLES
    kind,          \* "base" (BaseActor) or "actor" (Actor)
    body,          \* the run() generator of an Actor: script and reactions
    state,         \* _state
    parent,        \* _parent
    children,      \* _children (a list)
    pending,       \* _pending (a list)
    d_called,      \* d.called
    d_callbacks,   \* callbacks on d: the parents whose child list drops the cell
    inbox,         \* _inbox
    waiting,       \* _waiting: NoAwaiter or the filter of the awaiter
    on_hold_d,     \* _on_hold_d: "none", "ext", "get" or "fired"
    current_d,     \* _current_d is set
    paused_result, \* _paused_result
    gen,           \* _gen: "none", "suspended" or "done"
    pc,            \* position of the body in its script
    rootMsgs,      \* what the root container was sent
    handled,       \* messages passed to handle(), in order
    got,           \* results the body was resumed with, in order
    exited,        \* messages exit() has sent to the parent, in order
    resolved_in,   \* _state at the moment d fired (-1: not fired)
    nsent,         \* sends issued so far
    out,           \* _out: NoOut or the cell put sends to
    queue,         \* Process.__queue (a list)
    get_d,         \* Process.__get_d: 0 (None) or the number of a Deferred
    deferreds,     \* the PickyDeferreds Process.get has returned, in order
    events,        \* queue lengths of the HighWaterMarkReached events logged
    max_queue_len  \* the largest length Process.__queue has had

vars == <<kind, body, state, parent, children, pending, d_called, d_callbacks,
          inbox, waiting, on_hold_d, current_d, paused_result, gen, pc,
          rootMsgs, handled, got, exited, resolved_in, nsent, out,
          queue, get_d, deferreds, events, max_queue_len>>

World ==
    [kind |-> kind, body |-> body, state |-> state, parent |-> parent,
     children |-> children, pending |-> pending, d_called |-> d_called,
     d_callbacks |-> d_callbacks, inbox |-> inbox, waiting |-> waiting,
     on_hold_d |-> on_hold_d, current_d |-> current_d,
     paused_result |-> paused_result, gen |-> gen, pc |-> pc,
     rootMsgs |-> rootMsgs, handled |-> handled, got |-> got,
     exited |-> exited, resolved_in |-> resolved_in, out |-> out,
     cancelling_hold_d |-> [c \in Cells |-> FALSE],
     trace |-> <<>>, exc |-> NoExc]

Commit(w) ==
    /\ kind' = w.kind
    /\ body' = w.body
    /\ state' = w.state
    /\ parent' = w.parent
    /\ children' = w.children
    /\ pending' = w.pending
    /\ d_called' = w.d_called
    /\ d_callbacks' = w.d_callbacks
    /\ inbox' = w.inbox
    /\ waiting' = w.waiting
    /\ on_hold_d' = w.on_hold_d
    /\ current_d' = w.current_d
    /\ paused_result' = w.paused_result
    /\ gen' = w.gen
    /\ pc' = w.pc
    /\ rootMsgs' = w.rootMsgs
    /\ handled' = w.handled
    /\ got' = w.got
    /\ exited' = w.exited
    /\ resolved_in' = w.resolved_in
    /\ out' = w.out
    /\ UNCHANGED <<queue, get_d, deferreds, events, max_queue_len>>

\* -------------------------------------------------------------- helpers
Ok(w) == w.exc = NoExc
Throw(w, e) == [w EXCEPT !.exc = e]
Swallow(w) == [w EXCEPT !.exc = NoExc]
\* the trace of a call: what it did, in order, each event with the state of
\* the cell at that moment
Event(w, e, c, m) == [e |-> e, c |-> c, m |-> m, s |-> w.state[c]]
Ev(w, e, c, m) == [w EXCEPT !.trace = Append(@, Event(w, e, c, m))]

Range(s) == {s[i] : i \in 1..Len(s)}

RemoveAt(s, i) == SubSeq(s, 1, i - 1) \o SubSeq(s, i + 1, Len(s))

\* list.remove(x): drops the first element equal to x
FirstIndex(s, x) ==
    IF \E i \in 1..Len(s) : s[i] = x
    THEN CHOOSE i \in 1..Len(s) : s[i] = x /\ \A j \in 1..(i - 1) : s[j] # x
    ELSE 0

ListRemove(s, x) == IF FirstIndex(s, x) = 0 THEN s ELSE RemoveAt(s, FirstIndex(s, x))

\* ---------------------------------------------------- pattern matching
\* match(pattern, message) for the pattern (tag, ANY): (matched, value bound
\* to ANY)
match(f, m) == <<Len(m) = 2 /\ m[1] = f, m[2]>>

Matches(f, m) == f = NoneFilter \/ match(f, m)[1]

FirstMatch(q, f) ==
    IF \E i \in 1..Len(q) : match(f, q[i])[1]
    THEN CHOOSE i \in 1..Len(q) :
            match(f, q[i])[1] /\ \A j \in 1..(i - 1) : ~match(f, q[j])[1]
    ELSE 0

\* ------------------------------------------------------------ the calls
\* the methods call one another through call(w, method, cell, argument)
RECURSIVE call(_, _, _, _), pause_children(_, _, _), resume_children(_, _, _),
          drain_pending(_, _, _), stop_children(_, _, _),
          run_callbacks(_, _, _)

\* self.parent.send(msg)
parent_send(w, c, msg) ==
    IF w.parent[c] = NoParent THEN Throw(w, "AttributeError")
    ELSE IF w.parent[c] = Root THEN [w EXCEPT !.rootMsgs = Append(@, msg)]
    ELSE call(w, "send", w.parent[c], msg)

\* the callback _spawn_child puts on child.d: self._children.remove(child);
\* a ValueError stays in the Deferred
remove_child(w, p, c) == [w EXCEPT !.children[p] = ListRemove(@, c)]

run_callbacks(w, c, i) ==
    IF i > Len(w.d_callbacks[c]) THEN w
    ELSE run_callbacks(remove_child(w, w.d_callbacks[c][i], c), c, i + 1)

\* self.d.callback(None)
d_callback(w, c) ==
    IF w.d_called[c] THEN Throw(w, "AlreadyCalledError")
    ELSE run_callbacks(
            Ev([w EXCEPT !.d_called[c] = TRUE, !.resolved_in[c] = w.state[c]],
               "resolve", c, <<>>),
            c, 1)

\* BaseActor.exit resolving d before it sends the message
exit_resolving_first(w, c, msg) ==
    LET sent(w1) ==
            IF Ok(w1) THEN [w1 EXCEPT !.exited[c] = Append(@, msg)] ELSE w1
        resolved(w1) ==
            IF Ok(w1) THEN sent(parent_send(Ev(w1, "exit", c, msg), c, msg))
            ELSE w1
    IN  resolved(d_callback(w, c))

\* BaseActor.exit
exit(w, c, msg) ==
    LET sent(w1) ==
            IF Ok(w1) THEN d_callback([w1 EXCEPT !.exited[c] = Append(@, msg)], c)
            ELSE w1
    IN  sent(parent_send(Ev(w, "exit", c, msg), c, msg))

\* Actor.handle handing every message to the body, awaiter or not
Actor_handle_eager(w, c, m) ==
    call(w, "fire_current_d", c, [k |-> "val", shape |-> "message", m |-> m])

\* Actor.handle resolving its awaiter with any message, matching or not
Actor_handle_unfiltered(w, c, m) ==
    IF w.waiting[c] # NoAwaiter
    THEN call([w EXCEPT !.waiting[c] = NoAwaiter], "fire_current_d", c,
              [k |-> "val", shape |-> "message", m |-> m])
    ELSE [w EXCEPT !.inbox[c] = Append(@, m)]

\* Actor.handle
Actor_handle(w, c, m) ==
    LET f == w.waiting[c]
        found == IF f = NoneFilter THEN [k |-> "val", shape |-> "message", m |-> m]
                 ELSE [k |-> "val", shape |-> "bare", m |-> m]
    IN  IF f # NoAwaiter /\ Matches(f, m)
        THEN call([w EXCEPT !.waiting[c] = NoAwaiter], "fire_current_d", c, found)
        ELSE [w EXCEPT !.inbox[c] = Append(@, m)]

\* BaseActor.connect
connect(w, c, to) ==
    IF w.out[c] # NoOut THEN Throw(w, "AssertionError")
    ELSE [w EXCEPT !.out[c] = to]

\* BaseActor.put
put(w, c, m) ==
    IF w.out[c] = NoOut THEN Throw(w, "NoRoute")
    ELSE call(w, "send", w.out[c], m)

\* the message a "resend" handler answers by sending Resent to its own cell
Resendable == <<"foo", 1>>
Resent == <<"baz", 2>>

\* handle of a BaseActor: the handler function given to baseactor(); a
\* "pause" handler calls self.pause(), a "resend" handler self.send(Resent)
BaseActor_handle(w, c, m) ==
    IF w.body[c].handler = "raise" THEN Throw(w, "MockException")
    ELSE IF w.body[c].handler = "put" THEN put(w, c, m)
    ELSE IF w.body[c].handler = "pause" THEN call(w, "pause", c, <<>>)
    ELSE IF w.body[c].handler = "resend" /\ m = Resendable
    THEN call(w, "send", c, Resent)
    ELSE w

handle(w, c, m) ==
    LET w0 == Ev([w EXCEPT !.handled[c] = Append(@, m)],
                 "handle", c, m)
    IN  IF w.kind[c] = "actor" THEN Actor_handle(w0, c, m)
        ELSE BaseActor_handle(w0, c, m)

\* BaseActor.send buffering the message whenever the cell is not RUNNING
send_buffering(w, c, m) ==
    IF w.state[c] = RUNNING
    THEN LET w1 == handle(Ev(w, "send", c, m), c, m)
         IN  IF Ok(w1) THEN w1
             ELSE parent_send(Swallow(w1), c, ErrorMsg(c, w1.exc))
    ELSE [Ev(w, "send", c, m) EXCEPT !.pending[c] = Append(@, m)]

\* BaseActor.send; the event "send" marks a message the cell accepted
send(w, c, m) ==
    IF w.state[c] = RUNNING
    THEN LET handed(w1) ==
                 IF Ok(w1) THEN w1
                 ELSE parent_send(Swallow(w1), c, ErrorMsg(c, w1.exc))
         IN  handed(handle(Ev(w, "send", c, m), c, m))
    ELSE IF w.state[c] = NOT_STARTED THEN Throw(w, "ActorNotRunning")
    ELSE IF w.state[c] # STOPPED
    THEN [Ev(w, "send", c, m) EXCEPT !.pending[c] = Append(@, m)]
    ELSE Throw(w, "ActorNotRunning")

\* self._state = s; the event keeps the state the cell leaves
set_state(w, c, s) ==
    [Ev(w, "state", c, <<s>>) EXCEPT !.state[c] = s]

\* for child in self._children: if child._state is RUNNING: child.pause()
pause_children(w, c, i) ==
    IF ~Ok(w) \/ i > Len(w.children[c]) THEN w
    ELSE LET ch == w.children[c][i]
         IN  pause_children(IF w.state[ch] = RUNNING
                            THEN call(w, "pause", ch, <<>>) ELSE w,
                            c, i + 1)

\* BaseActor.pause
pause(w, c) ==
    IF w.state[c] # RUNNING THEN Throw(w, "ActorNotRunning")
    ELSE pause_children(set_state(w, c, PAUSED), c, 1)

\* for child in self._children: if not child.is_running: child.resume()
resume_children(w, c, i) ==
    IF ~Ok(w) \/ i > Len(w.children[c]) THEN w
    ELSE LET ch == w.children[c][i]
         IN  resume_children(IF w.state[ch] # RUNNING
                             THEN call(w, "resume", ch, <<>>) ELSE w,
                             c, i + 1)

\* for pending_message in self._pending: self.send(pending_message); once
\* the cell is PAUSED inside the loop every send appends to the list the
\* loop iterates, which never ends
drain_pending(w, c, i) ==
    IF ~Ok(w) \/ i > Len(w.pending[c]) THEN w
    ELSE IF w.state[c] = PAUSED THEN Throw(w, Hang)
    ELSE drain_pending(call(Ev(w, "replay", c, w.pending[c][i]), "send", c,
                            w.pending[c][i]),
                       c, i + 1)

\* BaseActor.resume without its check for STOPPED
BaseActor_resume_unchecked(w, c) ==
    IF w.state[c] = RUNNING THEN Throw(w, "ActorAlreadyRunning")
    ELSE LET w1 == resume_children(set_state(w, c, RUNNING), c, 1)
         IN  IF ~Ok(w1) \/ w1.pending[c] = <<>> THEN w1
             ELSE LET w2 == drain_pending(w1, c, 1)
                  IN  IF Ok(w2) THEN [w2 EXCEPT !.pending[c] = <<>>] ELSE w2

\* BaseActor.resume keeping the replayed messages in _pending
BaseActor_resume_keep_pending(w, c) ==
    IF w.state[c] = RUNNING THEN Throw(w, "ActorAlreadyRunning")
    ELSE IF w.state[c] = STOPPED THEN Throw(w, "ActorAlreadyStopped")
    ELSE LET w1 == resume_children(set_state(w, c, RUNNING), c, 1)
         IN  IF ~Ok(w1) \/ w1.pending[c] = <<>> THEN w1
             ELSE drain_pending(w1, c, 1)

\* BaseActor.resume
BaseActor_resume(w, c) ==
    IF w.state[c] = RUNNING THEN Throw(w, "ActorAlreadyRunning")
    ELSE IF w.state[c] = STOPPED THEN Throw(w, "ActorAlreadyStopped")
    ELSE LET replayed(w2) ==
                 IF Ok(w2) THEN [w2 EXCEPT !.pending[c] = <<>>] ELSE w2
             resumed(w1) ==
                 IF ~Ok(w1) \/ w1.pending[c] = <<>> THEN w1
                 ELSE replayed(drain_pending(w1, c, 1))
         IN  resumed(resume_children(set_state(w, c, RUNNING), c, 1))

\* Actor.resume
Actor_resume(w, c) ==
    LET delivered(w2) ==
            IF Ok(w2)
            THEN [w2 EXCEPT !.current_d[c] = FALSE,
                            !.paused_result[c] = NoneResult]
            ELSE w2
        resumed(w1) ==
            IF ~Ok(w1) \/ ~w1.current_d[c] THEN w1
            ELSE delivered(call(w1, "resume_body", c, w1.paused_result[c]))
    IN  resumed(call(w, "BaseActor_resume", c, <<>>))

resume(w, c) ==
    IF w.kind[c] = "actor" THEN Actor_resume(w, c)
    ELSE call(w, "BaseActor_resume", c, <<>>)

\* for child in self._children: child.stop(silent=True); the iterator keeps
\* an index into the list, which stop may shorten
stop_children(w, c, i) ==
    IF ~Ok(w) \/ i > Len(w.children[c]) THEN w
    ELSE stop_children(call(w, "stop", w.children[c][i], TRUE), c, i + 1)

\* BaseActor.stop
BaseActor_stop(w, c, silent) ==
    IF w.state[c] = NOT_STARTED THEN Throw(w, "Exception")
    ELSE IF w.state[c] = STOPPED THEN Throw(w, "ActorAlreadyStopped")
    ELSE LET stopped(w3) ==
                 IF ~silent /\ ~w3.d_called[c]
                 THEN call(w3, "exit", c, StoppedMsg(c))
                 ELSE w3
             children_stopped(w2) ==
                 IF ~Ok(w2) THEN w2 ELSE stopped(set_state(w2, c, STOPPED))
         IN  children_stopped(
                 stop_children(IF w.state[c] = RUNNING
                               THEN call(w, "pause", c, <<>>) ELSE w,
                               c, 1))

\* Actor.stop: silent is not passed on
Actor_stop(w, c, silent) ==
    LET cleaned(w1) == IF Ok(w1) THEN call(w1, "BaseActor_stop", c, FALSE) ELSE w1
    IN  cleaned(call(w, "on_stop", c, <<>>))

stop(w, c, silent) ==
    IF w.kind[c] = "actor" THEN Actor_stop(w, c, silent)
    ELSE call(w, "BaseActor_stop", c, silent)

\* Actor._fire_current_d: the callback wrap() puts on a yielded Deferred
fire_current_d(w, c, result) ==
    LET w1 == [w EXCEPT !.on_hold_d[c] = "none"]
    IN  IF w1.state[c] = RUNNING /\ ~w1.cancelling_hold_d[c]
        THEN call(w1, "resume_body", c, result)
        ELSE [w1 EXCEPT !.current_d[c] = TRUE, !.paused_result[c] = result]

\* the body resumed by a wrap() that cannot throw into it: no failure is caught
resume_body_uncaught(w, c, result) ==
    LET caught == FALSE
        w1 == IF IsFailure(result)
              THEN Ev([w EXCEPT !.pc[c] = IF caught THEN @ + 1 ELSE @,
                                !.gen[c] = IF caught THEN @ ELSE "done"],
                      "throw", c, <<>>)
              ELSE Ev([w EXCEPT !.pc[c] = @ + 1, !.got[c] = Append(@, result)],
                      "body", c, result.m)
    IN  IF w.gen[c] = "done" \/ (IsFailure(result) /\ ~caught)
        THEN call(IF w.gen[c] = "done" THEN w ELSE Ev(w1, "raise", c, <<>>),
                  "finally_", c, IsFailure(result))
        ELSE call(w1, "run", c, <<>>)

\* the derived Deferred fires: inlineCallbacks resumes wrap(), which sends
\* the value into the body or throws the failure at its suspension point
resume_body(w, c, result) ==
    LET caught == IsFailure(result) /\ w.body[c].onFail = "catch"
        w1 == IF IsFailure(result)
              THEN Ev([w EXCEPT !.pc[c] = IF caught THEN @ + 1 ELSE @,
                                !.gen[c] = IF caught THEN @ ELSE "done"],
                      "throw", c, <<>>)
              ELSE Ev([w EXCEPT !.pc[c] = @ + 1, !.got[c] = Append(@, result)],
                      "body", c, result.m)
    IN  IF w.gen[c] = "done" \/ (IsFailure(result) /\ ~caught)
        THEN call(IF w.gen[c] = "done" THEN w ELSE Ev(w1, "raise", c, <<>>),
                  "finally_", c, IsFailure(result))
        ELSE call(w1, "run", c, <<>>)

\* Actor.get taking the head of the inbox in place of the first match
Actor_get_head(w, c, f) ==
    LET q == w.inbox[c]
    IN  IF q # <<>> /\ (f = NoneFilter \/ FirstMatch(q, f) # 0)
        THEN [w |-> [w EXCEPT !.inbox[c] = Tail(q)], ret |-> "value",
              v |-> [k |-> "val", shape |-> "message", m |-> Head(q)]]
        ELSE IF w.waiting[c] # NoAwaiter
        THEN [w |-> Throw(w, "QueueUnderflow"), ret |-> "raise", v |-> NoneResult]
        ELSE [w |-> [w EXCEPT !.waiting[c] = f], ret |-> "deferred", v |-> NoneResult]

\* Actor.get: what it returns ("value": a message popped from the inbox,
\* "succeed": a fired Deferred, "deferred": the Deferred of a new awaiter) and
\* the heap it leaves; it raises QueueUnderflow when an awaiter exists
Actor_get(w, c, f) ==
    LET q == w.inbox[c]
        k == FirstMatch(q, f)
    IN  IF q # <<>> /\ f = NoneFilter
        THEN [w |-> [w EXCEPT !.inbox[c] = Tail(q)], ret |-> "value",
              v |-> [k |-> "val", shape |-> "message", m |-> Head(q)]]
        ELSE IF q # <<>> /\ k # 0
        THEN [w |-> [w EXCEPT !.inbox[c] = ListRemove(q, q[k])], ret |-> "succeed",
              v |-> [k |-> "val", shape |-> "tuple", m |-> q[k]]]
        ELSE IF w.waiting[c] # NoAwaiter
        THEN [w |-> Throw(w, "QueueUnderflow"), ret |-> "raise", v |-> NoneResult]
        ELSE [w |-> [w EXCEPT !.waiting[c] = f], ret |-> "deferred", v |-> NoneResult]

\* the body runs from its position to its next suspension or to its end;
\* wrap() puts _fire_current_d on a yielded Deferred and then sets
\* _on_hold_d, a yielded value goes straight back into the body
run(w, c) ==
    LET s == w.body[c].script
        i == w.pc[c]
        op == IF i > Len(s) THEN "return" ELSE s[i].op
        wrap(g, now) ==
            IF g.ret = "raise"
            THEN Ev([Swallow(g.w) EXCEPT !.gen[c] = "done"], "raise", c, <<>>)
            ELSE IF g.ret = "return"
            THEN Ev([Swallow(g.w) EXCEPT !.gen[c] = "done"], "return", c, <<>>)
            ELSE IF g.ret = "await"
            THEN [g.w EXCEPT !.gen[c] = "suspended", !.on_hold_d[c] = "ext"]
            ELSE IF g.ret = "deferred"
            THEN [g.w EXCEPT !.gen[c] = "suspended", !.on_hold_d[c] = "get"]
            ELSE IF g.ret = "succeed" /\ ~now
            THEN [g.w EXCEPT !.gen[c] = "suspended", !.on_hold_d[c] = "fired",
                             !.current_d[c] = TRUE, !.paused_result[c] = g.v]
            ELSE IF g.ret = "succeed"
            THEN [g.w EXCEPT !.on_hold_d[c] = "fired"]
            ELSE g.w
        next(g, now, w1) ==
            IF g.ret \in {"return", "raise"}
            THEN call(w1, "finally_", c, g.ret = "raise")
            ELSE IF now THEN call(w1, "resume_body", c, g.v)
            ELSE w1
        step(g, now) == next(g, now, wrap(g, now))
        yielded(g) ==
            step(g, g.ret = "value" \/ (g.ret = "succeed" /\ w.state[c] = RUNNING))
    IN  yielded(IF op = "get" THEN Actor_get(w, c, s[i].f)
                ELSE [w |-> w, ret |-> op, v |-> NoneResult])

\* finally_ in Actor.start, a callback on the Deferred of the body: what it
\* raises stays in that Deferred
finally_(w, c, failed) ==
    LET reported(w1) == Swallow(IF Ok(w1) THEN call(w1, "stop", c, FALSE) ELSE w1)
    IN  reported(IF failed THEN call(w, "exit", c, ErrorMsg(c, "MockException"))
                 ELSE w)

\* self._on_hold_d.cancel() with _cancelling_hold_d set, then the assert
cancel_hold_d(w, c) ==
    IF w.on_hold_d[c] \in {"ext", "get"}
    THEN LET w1 == [w EXCEPT !.cancelling_hold_d[c] = TRUE,
                             !.waiting[c] = IF w.on_hold_d[c] = "get" THEN NoAwaiter ELSE @]
             cancelled(w2) ==
                 [w2 EXCEPT !.cancelling_hold_d[c] = FALSE,
                            !.paused_result[c] =
                                IF w2.paused_result[c].k = "cancel" THEN NoneResult ELSE @]
         IN  cancelled(call(w1, "fire_current_d", c, CancelledError))
    ELSE w

\* self._gen.close() and the handlers around it: GeneratorExit is thrown at
\* the suspension point.  A body that does not catch it ("exit") ends; one
\* that raises ("raise") or yields again ("continue": it goes on with its
\* script after catching GeneratorExit, and close() raises RuntimeError at
\* its next yield) makes _on_stop call exit
gen_close(w, c) ==
    LET s == w.body[c].script
        i == w.pc[c] + 1
        how == w.body[c].onClose
        op == IF how # "continue" THEN how
              ELSE IF i > Len(s) THEN "exit" ELSE s[i].op
        closed(g, yields) ==
            LET e == IF yields THEN "RuntimeError"
                     ELSE IF op = "get" THEN "QueueUnderflow" ELSE "MockException"
                w1 == IF yields THEN [g.w EXCEPT !.pc[c] = i]
                      ELSE [Swallow(g.w) EXCEPT !.gen[c] = "done"]
            IN  IF g.ret = "exit" THEN w1
                ELSE call(w1, "exit", c, ErrorMsg(c, e))
        thrown(g) ==
            closed(g, g.ret \in {"await", "value", "succeed", "deferred"})
    IN  IF w.gen[c] # "suspended" THEN w
        ELSE thrown(IF op = "get" THEN Actor_get(w, c, s[i].f)
                    ELSE [w |-> w, ret |-> op, v |-> NoneResult])

\* the end of Actor._on_stop: the warning about a failure left in a PAUSED
\* cell, the event "warn"
warn_pending(w, c) ==
    IF Ok(w) /\ w.state[c] = PAUSED /\ IsFailure(w.paused_result[c])
    THEN Ev(w, "warn", c, <<>>)
    ELSE w

\* Actor._on_stop
on_stop(w, c) ==
    LET cancelled(w1) ==
            warn_pending(IF w1.gen[c] # "none" THEN gen_close(w1, c) ELSE w1, c)
    IN  cancelled(IF w.on_hold_d[c] # "none" THEN cancel_hold_d(w, c) ELSE w)

\* a Deferred made by Actor.get without a canceller
get_no_canceller(w, c) == w

\* the canceller Actor.get gives its Deferred: setattr(self, '_waiting', None)
get_canceller(w, c) == [w EXCEPT !.waiting[c] = NoAwaiter]

\* cancel() on the Deferred of an outstanding get: the canceller runs, then
\* the Deferred fails with CancelledError into _fire_current_d
cancel_get(w, c) ==
    call(get_canceller(w, c), "fire_current_d", c, CancelledError)

\* Actor.start; the event "run" marks the first call of the body
Actor_start(w, c) ==
    LET resumed(w1) ==
            IF Ok(w1)
            THEN call(Ev([w1 EXCEPT !.pc[c] = 1], "run", c, <<>>), "run", c, <<>>)
            ELSE w1
    IN  resumed(call(w, "resume", c, <<>>))

start(w, c) ==
    IF w.kind[c] = "actor" THEN Actor_start(w, c)
    ELSE call(w, "resume", c, <<>>)

\* BaseActor._spawn_child with a constructed cell; the event "append" marks
\* the moment the child enters the child list
spawn_child(w, p, c) ==
    LET linked(w2) ==
            IF w2.d_called[c] THEN remove_child(w2, p, c)
            ELSE [w2 EXCEPT !.d_callbacks[c] = Append(@, p)]
        started(w1) ==
            IF ~Ok(w1) THEN w1
            ELSE linked([Ev(w1, "append", c, <<p>>) EXCEPT
                            !.children[p] = Append(@, c)])
    IN  started(start([w EXCEPT !.parent[c] = p], c))

\* method dispatch
call(w, method, c, a) ==
    CASE method = "send" -> send(w, c, a)
      [] method = "pause" -> pause(w, c)
      [] method = "resume" -> resume(w, c)
      [] method = "BaseActor_resume" -> BaseActor_resume(w, c)
      [] method = "stop" -> stop(w, c, a)
      [] method = "BaseActor_stop" -> BaseActor_stop(w, c, a)
      [] method = "exit" -> exit(w, c, a)
      [] method = "run" -> run(w, c)
      [] method = "fire_current_d" -> fire_current_d(w, c, a)
      [] method = "resume_body" -> resume_body(w, c, a)
      [] method = "finally_" -> finally_(w, c, a)
      [] method = "on_stop" -> on_stop(w, c)

\* ------------------------------------------------------ Process mailbox
\* the messages a process is sent; a pattern is one of them, and
\* PickyDeferred.wants compares pattern and message with ==
ProcessMsgs == {"ping", "pong"}

Unfired == "unfired"

ProcessWorld ==
    [queue |-> queue, get_d |-> get_d, deferreds |-> deferreds,
     events |-> events]

\* PickyDeferred.wants
wants(d, result) == result = d.pattern

\* PickyDeferred.callback on the awaiter, then its callback __clear_get_d
PickyDeferred_callback(w, result) ==
    [w EXCEPT !.deferreds[w.get_d].result = result, !.get_d = 0]

\* Process.receive queueing every message, awaiter or not
Process_receive_queueing(w, msg) == [w EXCEPT !.queue = Append(@, msg)]

\* Process.receive logging an event for every length from hwm on
Process_receive_above(w, msg) ==
    IF w.get_d # 0 /\ wants(w.deferreds[w.get_d], msg)
    THEN PickyDeferred_callback(w, msg)
    ELSE LET appended(w1) ==
                 IF Len(w1.queue) >= hwm
                 THEN [w1 EXCEPT !.events = Append(@, Len(w1.queue))]
                 ELSE w1
         IN  appended([w EXCEPT !.queue = Append(@, msg)])

\* Process.receive
Process_receive(w, msg) ==
    IF w.get_d # 0 /\ wants(w.deferreds[w.get_d], msg)
    THEN PickyDeferred_callback(w, msg)
    ELSE LET appended(w1) ==
                 IF Len(w1.queue) # 0 /\ Len(w1.queue) % hwm = 0
                 THEN [w1 EXCEPT !.events = Append(@, Len(w1.queue))]
                 ELSE w1
         IN  appended([w EXCEPT !.queue = Append(@, msg)])

\* Process.get: what it returns ("value": a message popped from the queue,
\* "deferred": a new PickyDeferred, which becomes __get_d) and the heap it
\* leaves
Process_get(w, match_) ==
    IF FirstIndex(w.queue, match_) # 0
    THEN [w |-> [w EXCEPT !.queue = RemoveAt(@, FirstIndex(@, match_))],
          ret |-> "value"]
    ELSE [w |-> [w EXCEPT !.deferreds =
                              Append(@, [pattern |-> match_, result |-> Unfired]),
                          !.get_d = Len(w.deferreds) + 1],
          ret |-> "deferred"]

\* --------------------------------------------------------------- actions
Exists(c) == parent[c] # NoParent

\* cells are constructed in the order of their numbers
Spawn(p, c) ==
    /\ p # c /\ Exists(p) /\ ~Exists(c)
    /\ \A c2 \in Cells : c2 < c => Exists(c2)
    /\ Commit(spawn_child(World, p, c))
    /\ UNCHANGED nsent

\* start() of a PAUSED procedure cell would run a second instance of the
\* body next to the suspended one; the runs leave that call out
Start(c) ==
    /\ Exists(c) /\ state[c] # PAUSED
    /\ Commit(start(World, c))
    /\ UNCHANGED nsent

Send(c, m) ==
    /\ Exists(c) /\ nsent < MaxSends
    /\ Commit(send(World, c, m))
    /\ nsent' = nsent + 1

Pause(c) ==
    /\ Exists(c)
    /\ Commit(pause(World, c))
    /\ UNCHANGED nsent

Resume(c) ==
    /\ Exists(c)
    /\ Commit(resume(World, c))
    /\ UNCHANGED nsent

Stop(c, silent) ==
    /\ Exists(c)
    /\ Commit(stop(World, c, silent))
    /\ UNCHANGED nsent

\* the Deferred the body awaits is fired by its owner
Fire(c, r) ==
    /\ on_hold_d[c] = "ext"
    /\ Commit(fire_current_d(World, c, r))
    /\ UNCHANGED nsent

\* the holder of the Deferred of an outstanding get cancels it
Cancel(c) ==
    /\ on_hold_d[c] = "get"
    /\ Commit(cancel_get(World, c))
    /\ UNCHANGED nsent

Connect(c, to) ==
    /\ Exists(c) /\ Exists(to)
    /\ Commit(connect(World, c, to))
    /\ UNCHANGED nsent

Put(c, m) ==
    /\ Exists(c) /\ nsent < MaxSends
    /\ Commit(put(World, c, m))
    /\ nsent' = nsent + 1

CommitProcess(w) ==
    /\ queue' = w.queue
    /\ get_d' = w.get_d
    /\ deferreds' = w.deferreds
    /\ events' = w.events
    /\ max_queue_len' = IF Len(w.queue) > max_queue_len THEN Len(w.queue)
                        ELSE max_queue_len
    /\ UNCHANGED <<kind, body, state, parent, children, pending, d_called,
                   d_callbacks, inbox, waiting, on_hold_d, current_d,
                   paused_result, gen, pc, rootMsgs, handled, got, exited,
                   resolved_in, nsent, out>>

\* the cell of the process delivers a message
Receive(msg) ==
    /\ Len(queue) < MaxQueue /\ Len(events) < MaxEvents
    /\ CommitProcess(Process_receive(ProcessWorld, msg))

\* the coroutine of the process calls get
ProcessGet(match_) ==
    /\ Len(deferreds) < MaxGets
    /\ CommitProcess(Process_get(ProcessWorld, match_).w)

KindOf(b) == IF b.handler = "none" THEN "actor" ELSE "base"

InitWith(B) ==
    /\ body \in B
    /\ kind = [c \in Cells |-> KindOf(body[c])]
    /\ state = [c \in Cells |-> NOT_STARTED]
    /\ parent = [c \in Cells |-> IF c = 1 THEN Root ELSE NoParent]
    /\ children = [c \in Cells |-> <<>>]
    /\ pending = [c \in Cells |-> <<>>]
    /\ d_called = [c \in Cells |-> FALSE]
    /\ d_callbacks = [c \in Cells |-> <<>>]
    /\ inbox = [c \in Cells |-> <<>>]
    /\ waiting = [c \in Cells |-> NoAwaiter]
    /\ on_hold_d = [c \in Cells |-> "none"]
    /\ current_d = [c \in Cells |-> FALSE]
    /\ paused_result = [c \in Cells |-> NoneResult]
    /\ gen = [c \in Cells |-> "none"]
    /\ pc = [c \in Cells |-> 1]
    /\ rootMsgs = <<>>
    /\ handled = [c \in Cells |-> <<>>]
    /\ got = [c \in Cells |-> <<>>]
    /\ exited = [c \in Cells |-> <<>>]
    /\ resolved_in = [c \in Cells |-> -1]
    /\ nsent = 0
    /\ out = [c \in Cells |-> NoOut]
    /\ queue = <<>>
    /\ get_d = 0
    /\ deferreds = <<>>
    /\ events = <<>>
    /\ max_queue_len = 0

\* ------------------------------------------------ supervision tree runs
ParentBodies ==
    {Handler("record"),
     Body(<<Await>>, "exit", "catch")}

ChildBodies ==
    {Handler("record"),
     Body(<<Await>>, "exit", "catch"),
     Body(<<Await, Raise>>, "raise", "catch"),
     Body(<<Await, Await, Raise>>, "continue", "catch")}

\* the children all have the same body, or procedure and handler cells
\* alternate
TreeAssignments ==
    {b \in [Cells -> ParentBodies \cup ChildBodies] :
        /\ b[1] \in ParentBodies
        /\ \/ \E cb \in ChildBodies : \A c \in Cells \ {1} : b[c] = cb
           \/ \A c \in Cells \ {1} :
                 b[c] = IF c % 2 = 0 THEN Body(<<Await>>, "exit", "catch")
                        ELSE Handler("record")}

Init == InitWith(TreeAssignments)

Next ==
    \/ \E c \in Cells \ {1} : Spawn(1, c)
    \/ \E c \in Cells : Start(c)
    \/ \E c \in Cells : Pause(c)
    \/ \E c \in Cells : Resume(c)
    \/ \E c \in Cells, silent \in BOOLEAN : Stop(c, silent)
    \/ \E c \in Cells : Fire(c, ExtValue)

Spec == Init /\ [][Next]_vars

\* ----------------------------------------------------------- mailbox runs
\* cell 1 receives messages from the environment: a recording handler, a
\* raising handler, a body that receives selectively and then the head of
\* its inbox, a body that first awaits an external Deferred, and one that
\* does not catch the failure of the Deferred it awaits; cell 2 is a handler
\* child of cell 1
MailBodies ==
    {Handler("record"),
     Handler("raise"),
     Body(<<Get("baz"), Get(NoneFilter)>>, "exit", "catch"),
     Body(<<Get("baz"), Get("baz")>>, "exit", "catch"),
     Body(<<Await, Get("baz"), Get(NoneFilter)>>, "exit", "catch"),
     Body(<<Await, Get(NoneFilter)>>, "exit", "raise")}

MailAssignments ==
    {b \in [Cells -> MailBodies] :
        \A c \in Cells \ {1} : b[c] = Handler("record")}

InitMail == InitWith(MailAssignments)

NextMail ==
    \/ Spawn(1, 2)
    \/ Start(1)
    \/ \E m \in UserMsgs : Send(1, m)
    \/ Pause(1)
    \/ Resume(1)
    \/ \E c \in {1, 2}, silent \in BOOLEAN : Stop(c, silent)
    \/ \E r \in {ExtValue, ExtFailure} : Fire(1, r)

SpecMail == InitMail /\ [][NextMail]_vars

\* the mailbox runs with cancellation of the Deferred of an outstanding get
NextCancel ==
    \/ NextMail
    \/ Cancel(1)

SpecCancel == InitMail /\ [][NextCancel]_vars

\* -------------------------------------------------------- escalation runs
\* handler cells that raise on every message, under a parent that records
\* what it is sent or keeps it in its inbox while it awaits a Deferred
\* a resume whose replay fails keeps the pause buffer, and the next resume
\* replays it again: the runs end when a cell has handled MaxHandled
\* messages
MaxHandled == 4

EscalationAssignments ==
    {b \in [Cells -> ParentBodies \cup {Handler("raise")}] :
        /\ b[1] \in ParentBodies
        /\ \A c \in Cells \ {1} : b[c] = Handler("raise")}

InitEscalation == InitWith(EscalationAssignments)

NextEscalation ==
    \/ Spawn(1, 2)
    \/ \E c \in {1, 2} : Start(c)
    \/ Send(2, <<"foo", 1>>)
    \/ \E c \in {1, 2} : Pause(c)
    \/ \E c \in {1, 2} :
          (\A k \in Cells : Len(handled[k]) < MaxHandled) /\ Resume(c)
    \/ \E c \in {1, 2}, silent \in BOOLEAN : Stop(c, silent)

SpecEscalation == InitEscalation /\ [][NextEscalation]_vars

\* ------------------------------------------------------------ misuse runs
\* handler cells that pass every message they handle to put, under a
\* recording parent; a cell may be connected to its parent, and put is also
\* called from outside
MisuseAssignments ==
    {b \in [Cells -> {Handler("record"), Handler("put")}] :
        /\ b[1] = Handler("record")
        /\ \A c \in Cells \ {1} : b[c] = Handler("put")}

InitMisuse == InitWith(MisuseAssignments)

NextMisuse ==
    \/ Spawn(1, 2)
    \/ \E c \in {1, 2} : Start(c)
    \/ Send(2, <<"foo", 1>>)
    \/ Put(2, <<"foo", 1>>)
    \/ Connect(2, 1)
    \/ \E c \in {1, 2} : Pause(c)
    \/ \E c \in {1, 2} :
          (\A k \in Cells : Len(handled[k]) < MaxHandled) /\ Resume(c)
    \/ \E c \in {1, 2}, silent \in BOOLEAN : Stop(c, silent)

SpecMisuse == InitMisuse /\ [][NextMisuse]_vars

\* ------------------------------------------------------------ replay runs
\* one handler cell whose handler pauses its own cell, or sends a further
\* message to it; a resume whose replay loop never ends is a call that
\* never returns, and takes no step
ReplayAssignments ==
    {b \in [Cells -> {Handler("record"), Handler("pause"),
                      Handler("resend")}] :
        /\ b[1] # Handler("record")
        /\ \A c \in Cells \ {1} : b[c] = Handler("record")}

InitReplay == InitWith(ReplayAssignments)

NextReplay ==
    \/ Start(1)
    \/ \E m \in UserMsgs : Send(1, m)
    \/ Pause(1)
    \/ /\ Len(handled[1]) < MaxHandled
       /\ resume(World, 1).exc # Hang
       /\ Resume(1)

SpecReplay == InitReplay /\ [][NextReplay]_vars

\* ----------------------------------------------------------- process runs
\* one process; its cell delivers messages and its coroutine calls get, each
\* at any time
ProcessAssignments == {[c \in Cells |-> Handler("record")]}

InitProcess == InitWith(ProcessAssignments)

NextProcess ==
    \/ \E msg \in ProcessMsgs : Receive(msg)
    \/ \E match_ \in ProcessMsgs : ProcessGet(match_)

SpecProcess == InitProcess /\ [][NextProcess]_vars

\* ----------------------------------------------------------- both mailboxes
\* a cell and a process side by side, each sent messages while its body
\* receives
NextMailboxes ==
    \/ Start(1)
    \/ \E m \in UserMsgs : Send(1, m)
    \/ \E msg \in ProcessMsgs : Receive(msg)
    \/ \E match_ \in ProcessMsgs : ProcessGet(match_)

SpecMailboxes == InitMail /\ [][NextMailboxes]_vars

\* ---------------------------------------------------------------- claims
\* P holds of the heap after every call that can be made in this state
AfterAnyCall(P(_)) ==
    /\ \A c \in Cells : Exists(c) =>
          /\ state[c] # PAUSED => P(start(World, c))
          /\ P(pause(World, c))
          /\ P(resume(World, c))
          /\ P(stop(World, c, FALSE))
          /\ P(stop(World, c, TRUE))
          /\ \A m \in UserMsgs : P(send(World, c, m))
          /\ on_hold_d[c] = "ext" =>
                P(fire_current_d(World, c, ExtValue))
                /\ P(fire_current_d(World, c, ExtFailure))
    /\ \A p \in Cells, c \in Cells :
          (p # c /\ Exists(p) /\ ~Exists(c)) => P(spawn_child(World, p, c))

Alive(s) == s \in {RUNNING, PAUSED}

\* C1: when stop(P) returns for a RUNNING or PAUSED parent P, every cell that
\* was in P's child set when stop was called is STOPPED
C1_StopStopsEveryChild ==
    [][\A p \in Cells, silent \in BOOLEAN :
          (Alive(state[p]) /\ Stop(p, silent) /\ Ok(stop(World, p, silent)))
              => \A c \in Range(children[p]) : state'[c] = STOPPED]_vars

\* the transitions of the lifecycle state machine
LegalTransitions ==
    {<<NOT_STARTED, RUNNING>>, <<RUNNING, PAUSED>>, <<PAUSED, RUNNING>>,
     <<RUNNING, STOPPED>>, <<PAUSED, STOPPED>>}

StateChanges(w) == {i \in 1..Len(w.trace) : w.trace[i].e = "state"}

OnlyLegalTransitions(w) ==
    \A i \in StateChanges(w) :
        <<w.trace[i].s, w.trace[i].m[1]>> \in LegalTransitions

StoppedStaysStopped(w) ==
    \A c \in Cells : state[c] = STOPPED => w.state[c] = STOPPED

C2_Holds(w) == OnlyLegalTransitions(w) /\ StoppedStaysStopped(w)

\* C2: every assignment to a cell's state made by any call follows
\* NOT_STARTED->RUNNING, RUNNING->PAUSED, PAUSED->RUNNING or
\* RUNNING|PAUSED->STOPPED, and no call changes the state of a STOPPED cell
C2_StateMachine == AfterAnyCall(C2_Holds)

\* a STOPPED cell is still in the child set of a RUNNING or PAUSED parent,
\* and resume, stop and send on it raise
C2_Witness ==
    \E c \in Cells :
        /\ state[c] = STOPPED
        /\ \E p \in Cells : c \in Range(children[p]) /\ Alive(state[p])
        /\ ~Ok(resume(World, c)) /\ ~Ok(stop(World, c, FALSE))
        /\ ~Ok(send(World, c, <<"foo", 1>>))

IsChild(c) == parent[c] \in Cells

C4_StoppedHasResolved == \A c \in Cells : state[c] = STOPPED => d_called[c]

\* C5: whenever the terminal signal d of a cell resolves, the state of the
\* cell is STOPPED (resolved_in keeps the state d.callback found)
C5_ResolvedOnlyWhenStopped ==
    \A c \in Cells : d_called[c] => resolved_in[c] = STOPPED

\* C6: a send to a PAUSED cell reaches no handler and is buffered, and
\* resume of a PAUSED cell passes to handle() exactly the buffered messages,
\* each once, in the order they were sent
C6_PausedSendsDeliveredOnResume ==
    [][\A c \in Cells :
          /\ \A m \in UserMsgs :
                (state[c] = PAUSED /\ Send(c, m))
                    => /\ handled'[c] = handled[c]
                       /\ pending'[c] = Append(pending[c], m)
          /\ (state[c] = PAUSED /\ Resume(c))
                => handled'[c] = handled[c] \o pending[c]]_vars

\* what a call delivered to the body of cell c, in order: the events of a
\* value sent into the generator and of a failure thrown into it
Delivered(w, c) ==
    SelectSeq(w.trace, LAMBDA e : e.c = c /\ e.e \in {"body", "throw"})

IsDeliveryOf(e, r) ==
    IF IsFailure(r) THEN e.e = "throw" ELSE e.e = "body" /\ e.m = r.m

\* C7: an awaited external result that arrives while the cell is PAUSED does
\* not resume the body and is cached; the resume that follows delivers it to
\* the body, once, and drops it from the cache
C7_CachedWhilePausedDeliveredOnResume ==
    [][\A c \in Cells :
          /\ \A r \in {ExtValue, ExtFailure} :
                (state[c] = PAUSED /\ Fire(c, r))
                    => /\ Delivered(fire_current_d(World, c, r), c) = <<>>
                       /\ current_d'[c] /\ paused_result'[c] = r
          /\ (state[c] = PAUSED /\ current_d[c]
                /\ paused_result[c] \in {ExtValue, ExtFailure} /\ Resume(c))
                => /\ Delivered(resume(World, c), c) # <<>>
                   /\ IsDeliveryOf(Delivered(resume(World, c), c)[1],
                                   paused_result[c])
                   /\ ~current_d'[c]]_vars

PausedWithCachedResultAndBuffer(c) ==
    /\ state[c] = PAUSED /\ current_d[c]
    /\ paused_result[c] \in {ExtValue, ExtFailure}
    /\ pending[c] # <<>>

\* what a call did with cell c, in order: messages passed to handle() and
\* deliveries to the body
Dispatched(w, c) ==
    SelectSeq(w.trace, LAMBDA e : e.c = c /\ e.e \in {"handle", "body", "throw"})

\* C8 as stated: on resume of a PAUSED cell with a cached external result
\* and buffered sends, the cached result is delivered to the body before any
\* buffered send is dispatched
C8_CachedResultBeforeDispatch ==
    [][\A c \in Cells :
          (PausedWithCachedResultAndBuffer(c) /\ Resume(c))
              => LET d == Dispatched(resume(World, c), c)
                 IN  d # <<>> => d[1].e # "handle"]_vars

\* C8 amended: on such a resume the buffered sends are dispatched to the
\* mailbox first, and the cached result is the first thing delivered to the
\* body: no buffered message reaches the body before it
C8_CachedResultReachesBodyFirst ==
    [][\A c \in Cells :
          (PausedWithCachedResultAndBuffer(c) /\ Resume(c))
              => LET w == resume(World, c)
                     d == Delivered(w, c)
                 IN  /\ d # <<>> => IsDeliveryOf(d[1], paused_result[c])
                     /\ Ok(w) => d # <<>>]_vars

\* a PAUSED cell holds a cached external value and a buffered send, and
\* resume delivers to its body
C8_Witness ==
    \E c \in Cells :
        /\ PausedWithCachedResultAndBuffer(c)
        /\ Ok(resume(World, c))
        /\ Len(Delivered(resume(World, c), c)) >= 2

NextGetsHead(c) ==
    /\ pc[c] + 1 <= Len(body[c].script)
    /\ body[c].script[pc[c] + 1] = Get(NoneFilter)

\* C9: a cell waits with a selective awaiter; the messages that arrived
\* since do not match and are in the inbox in arrival order.  A message that
\* does not match is appended to the inbox and the awaiter stays; the first
\* message that matches resolves the awaiter and leaves the inbox as it
\* was, and a get(None) that follows yields the oldest message of the inbox
C9_SelectiveReceive ==
    [][\A c \in Cells, m \in UserMsgs :
          (/\ kind[c] = "actor" /\ state[c] = RUNNING
           /\ waiting[c] \notin {NoAwaiter, NoneFilter}
           /\ Send(c, m))
              => LET w == send(World, c, m)
                     d == Delivered(w, c)
                 IN  /\ \A i \in 1..Len(inbox[c]) : ~match(waiting[c], inbox[c][i])[1]
                     /\ IF match(waiting[c], m)[1]
                        THEN /\ d # <<>> /\ d[1].e = "body" /\ d[1].m = m
                             /\ Len(d) = 1 => inbox'[c] = inbox[c]
                             /\ (NextGetsHead(c) /\ inbox[c] # <<>>)
                                   => /\ Len(d) = 2 /\ d[2].m = Head(inbox[c])
                                      /\ inbox'[c] = Tail(inbox[c])
                        ELSE /\ d = <<>>
                             /\ inbox'[c] = Append(inbox[c], m)
                             /\ waiting'[c] = waiting[c]]_vars

\* a cell waits for 'baz' with two other messages in its inbox; the arrival
\* of ('baz', 2) resumes its body twice, with the match and with the oldest
\* message of the inbox
C9_Witness ==
    \E c \in Cells :
        /\ state[c] = RUNNING /\ waiting[c] = "baz" /\ Len(inbox[c]) = 2
        /\ LET w == send(World, c, <<"baz", 2>>)
           IN  Len(Delivered(w, c)) = 2 /\ w.inbox[c] = Tail(inbox[c])

Filters == {NoneFilter} \cup {m[1] : m \in UserMsgs}

\* C10: get on a non-empty inbox takes out the first message, in arrival
\* order, that the filter accepts (the head for get(None)) and keeps the
\* others in their order; when no message is accepted the inbox is left as
\* it is and the awaiter is registered (QueueUnderflow when there is one
\* already)
C10_GetRemovesFirstMatch ==
    \A c \in Cells, f \in Filters :
        (kind[c] = "actor" /\ inbox[c] # <<>>)
            => LET q == inbox[c]
                   g == Actor_get(World, c, f)
                   accepted == {i \in 1..Len(q) : f = NoneFilter \/ q[i][1] = f}
               IN  IF accepted # {}
                   THEN LET k == CHOOSE i \in accepted : \A j \in accepted : i <= j
                        IN  /\ g.ret \in {"value", "succeed"}
                            /\ g.v.m = q[k]
                            /\ g.w.inbox[c] = SubSeq(q, 1, k - 1) \o SubSeq(q, k + 1, Len(q))
                            /\ g.w.waiting[c] = waiting[c]
                   ELSE /\ g.w.inbox[c] = q
                        /\ IF waiting[c] = NoAwaiter
                           THEN g.ret = "deferred" /\ g.w.waiting[c] = f
                           ELSE g.ret = "raise" /\ g.w.waiting[c] = waiting[c]

\* a body has taken ('baz', 2) out of the middle of an inbox of three and
\* then the head with get(None); the third message is still in the inbox
C10_Witness ==
    \E c \in Cells :
        /\ Len(got[c]) = 3 /\ inbox[c] # <<>>
        /\ got[c][2].shape = "tuple" /\ got[c][2].m = <<"baz", 2>>
        /\ got[c][3].shape = "message"
        /\ handled[c][2] = <<"baz", 2>>

Count(s, m) == Cardinality({i \in 1..Len(s) : s[i] = m})

\* the messages the body of cell c has received, in order
Received(w, c) ==
    LET g == SelectSeq(w.got[c], LAMBDA r : r.shape # "ext")
    IN  [i \in 1..Len(g) |-> g[i].m]

\* the places a message of cell c is in: the pause buffer, the inbox, the
\* body
Places(w, c) == w.pending[c] \o w.inbox[c] \o Received(w, c)

\* the messages send accepted for cell c during a call, and those among
\* them that resume replayed from the pause buffer
Sent(w, c, how) ==
    LET a == SelectSeq(w.trace, LAMBDA e : e.c = c /\ e.e = how)
    IN  [i \in 1..Len(a) |-> a[i].m]

Conserved(w) ==
    \A c \in Cells :
        (kind[c] = "actor" /\ w.state[c] # STOPPED)
            => \A m \in Range(Places(World, c) \o Places(w, c) \o Sent(w, c, "send")) :
                  Count(Places(w, c), m)
                      = Count(Places(World, c), m) + Count(Sent(w, c, "send"), m)
                            - Count(Sent(w, c, "replay"), m)

\* C11: for a procedure cell that is not STOPPED, every call leaves each
\* message it held in exactly one of pause buffer, inbox and body, and adds
\* to them exactly the messages send accepted during the call, each once
C11_MessageInOnePlace == AfterAnyCall(Conserved)

\* a PAUSED procedure cell holds one message in each place, and resume
\* moves the buffered one to the inbox
C11_Witness ==
    \E c \in Cells :
        /\ kind[c] = "actor" /\ state[c] = PAUSED
        /\ pending[c] # <<>> /\ inbox[c] # <<>> /\ Received(World, c) # <<>>
        /\ Ok(resume(World, c))
        /\ resume(World, c).inbox[c] = inbox[c] \o pending[c]
        /\ resume(World, c).pending[c] = <<>>

\* the body of cell c raised during the call, with the cell RUNNING
BodyRaisedRunning(w, c) ==
    \E i \in 1..Len(w.trace) :
        w.trace[i].e = "raise" /\ w.trace[i].c = c /\ w.trace[i].s = RUNNING

RaiseReported(w) ==
    \A c \in Cells :
        BodyRaisedRunning(w, c)
            => /\ w.state[c] = STOPPED
               /\ w.exited[c] = exited[c] \o <<ErrorMsg(c, "MockException")>>
               /\ w.parent[c] \in Cells \ {Root}
                     => c \notin Range(w.children[w.parent[c]])

\* C12: after any call in which the body of a RUNNING procedure cell
\* raises, the cell is STOPPED, it has sent its parent one 'error' message
\* naming itself and the exception and no 'stopped' message, and it is not
\* in the child list of its parent
C12_BodyRaiseStopsAndReports == AfterAnyCall(RaiseReported)

\* what the parent p of a cell has been sent and has accepted
Inbound(w, p) == IF p = Root THEN w.rootMsgs ELSE w.handled[p] \o w.pending[p]

\* C13: a send to a RUNNING handler cell whose handler raises returns
\* without an exception, the parent has accepted one 'error' message naming
\* the cell and the exception, the cell has sent no terminal message, and
\* it is RUNNING and handles the next send
C13_HandlerRaiseEscalates ==
    \A c \in Cells, m \in UserMsgs :
        (Exists(c) /\ kind[c] = "base" /\ body[c].handler = "raise"
            /\ state[c] = RUNNING)
            => LET w == send(World, c, m)
                   w2 == send(w, c, m)
               IN  /\ Ok(w)
                   /\ Inbound(w, parent[c])
                         = Inbound(World, parent[c]) \o <<ErrorMsg(c, "MockException")>>
                   /\ w.exited[c] = exited[c]
                   /\ w.state[c] = RUNNING
                   /\ w2.handled[c] = handled[c] \o <<m, m>>

\* every message a parent has been sent and has accepted
Accepted ==
    Range(rootMsgs)
        \cup UNION {Range(handled[c]) \cup Range(pending[c]) : c \in Cells}

\* C14: every 'error' message a parent has accepted has four elements, the
\* fourth a boolean
C14_ErrorIsFourTuple ==
    \A m \in Accepted :
        m[1] = "error" => Len(m) = 4 /\ m[4] \in BOOLEAN

\* cell c is a live procedure cell suspended on an external Deferred or on
\* a get, with a body that ends when its generator is closed
Suspended(c) ==
    /\ Exists(c) /\ kind[c] = "actor" /\ Alive(state[c])
    /\ gen[c] = "suspended" /\ on_hold_d[c] \in {"ext", "get"}
    /\ body[c].onClose = "exit"

\* what a call raised into the body of cell c or made it report as an error
RaisedInto(w, c) ==
    {i \in 1..Len(w.trace) :
        /\ w.trace[i].c = c
        /\ \/ w.trace[i].e = "throw"
           \/ w.trace[i].e = "exit" /\ w.trace[i].m[1] = "error"}

\* C15: stop() of a suspended procedure cell cancels what the cell awaits and
\* drops its awaiter, raises nothing into the body, reports no error, raises
\* nothing to its caller, and sends the parent ('stopped', cell)
C15_StopCancelsAwaited ==
    \A c \in Cells :
        Suspended(c)
            => LET w == stop(World, c, FALSE)
               IN  /\ Ok(w)
                   /\ w.on_hold_d[c] = "none" /\ w.waiting[c] = NoAwaiter
                   /\ RaisedInto(w, c) = {}
                   /\ w.exited[c] = exited[c] \o <<StoppedMsg(c)>>

\* cell c is a live, suspended procedure cell whose body, when its
\* generator is closed, raises or goes on to its next yield
Unwilling(c) ==
    /\ Exists(c) /\ kind[c] = "actor" /\ Alive(state[c])
    /\ gen[c] = "suspended" /\ body[c].onClose \in {"raise", "continue"}

IsUnclean(m, c) ==
    Len(m) = 4 /\ m[1] = "stopped" /\ m[2] = c /\ m[3] = "unclean"

\* C16: stop() of a cell whose body refuses to exit or raises while it is
\* closed, under a RUNNING parent, raises nothing, leaves the cell STOPPED,
\* and sends the parent one terminal message, ('stopped', cell, 'unclean',
\* reason)
C16_UncleanStopReported ==
    \A c \in Cells :
        (Unwilling(c) /\ parent[c] # Root /\ state[parent[c]] = RUNNING)
            => LET w == stop(World, c, FALSE)
               IN  /\ Ok(w)
                   /\ w.state[c] = STOPPED
                   /\ Len(w.exited[c]) = Len(exited[c]) + 1
                   /\ IsUnclean(w.exited[c][Len(w.exited[c])], c)

\* cell c is PAUSED with the failure of the Deferred it awaited cached
FailureCached(c) ==
    /\ Exists(c) /\ kind[c] = "actor" /\ state[c] = PAUSED
    /\ gen[c] = "suspended" /\ current_d[c] /\ paused_result[c] = ExtFailure
    /\ body[c].onClose = "exit"

Warned(w, c) ==
    \E i \in 1..Len(w.trace) : w.trace[i].e = "warn" /\ w.trace[i].c = c

\* C17: stop() of a PAUSED procedure cell that holds a cached failure warns
\* about the failure, throws nothing into the body, sends no 'error', and
\* sends the parent ('stopped', cell)
C17_CachedFailureDropped ==
    \A c \in Cells :
        FailureCached(c)
            => LET w == stop(World, c, FALSE)
               IN  /\ Warned(w, c)
                   /\ RaisedInto(w, c) = {}
                   /\ w.exited[c] = exited[c] \o <<StoppedMsg(c)>>

\* the call raised e and left the heap as it was
Rejected(w, e) == w.exc = e /\ [w EXCEPT !.trace = <<>>, !.exc = NoExc] = World

C19_SendToDeadCellRaises ==
    \A c \in Cells, m \in UserMsgs :
        (Exists(c) /\ state[c] \in {NOT_STARTED, STOPPED})
            => Rejected(send(World, c, m), "ActorNotRunning")

\* a handler cell that has handled a message and was then stopped, next to
\* a cell that has not been started, both refusing a message
C19_Witness ==
    \E c \in Cells, k \in Cells :
        /\ Exists(c) /\ state[c] = STOPPED /\ handled[c] # <<>>
        /\ Exists(k) /\ state[k] = NOT_STARTED
        /\ \A m \in UserMsgs :
              /\ send(World, c, m).exc = "ActorNotRunning"
              /\ send(World, k, m).exc = "ActorNotRunning"

\* C20: stop() of a RUNNING or PAUSED cell whose parent accepts messages
\* returns normally with the cell STOPPED, whatever its children are and
\* whatever was done to them before
C20_StopAlwaysStops ==
    \A c \in Cells, silent \in BOOLEAN :
        (Exists(c) /\ Alive(state[c])
            /\ (parent[c] = Root \/ state[parent[c]] = RUNNING))
            => LET w == stop(World, c, silent)
               IN  Ok(w) /\ w.state[c] = STOPPED

\* C21: a cell that is STOPPED is in no child list, and so pause, resume
\* and stop of a parent never fail on a finished child
C21_TerminatedChildRemoved ==
    \A p \in Cells, c \in Cells :
        (Exists(p) /\ Exists(c) /\ state[c] = STOPPED)
            => c \notin Range(children[p])

\* every resolution of a terminal signal during the call comes after the
\* cell has passed a terminal message to exit
ResolvedAfterExit(w) ==
    \A i \in 1..Len(w.trace) :
        w.trace[i].e = "resolve"
            => \E j \in 1..(i - 1) :
                  w.trace[j].e = "exit" /\ w.trace[j].c = w.trace[i].c

\* C22: a spawned child that is not in the child list of its parent has
\* sent its terminal message, and in every call the terminal signal, whose
\* callback removes the child, resolves after the message was handed over
C22_MessageBeforeRemoval ==
    /\ \A c \in Cells :
          (IsChild(c) /\ c \notin Range(children[parent[c]]))
              => exited[c] # <<>>
    /\ AfterAnyCall(ResolvedAfterExit)

\* a child has sent ('stopped', child) and is gone from the list of its
\* parent, which is still alive
C22_Witness ==
    \E c \in Cells :
        /\ IsChild(c) /\ Alive(state[parent[c]])
        /\ c \notin Range(children[parent[c]])
        /\ exited[c] = <<StoppedMsg(c)>>

\* the call made child c pass ('stopped', c) to exit
SentStopped(w, c) ==
    \E i \in 1..Len(w.trace) :
        w.trace[i].e = "exit" /\ w.trace[i].c = c /\ w.trace[i].m = StoppedMsg(c)

\* C23: stop(P) makes no child of P send ('stopped', child), whether the
\* child is a handler cell or a procedure cell
C23_CascadeIsSilent ==
    \A p \in Cells, silent \in BOOLEAN :
        Exists(p) =>
            \A c \in Range(children[p]) : ~SentStopped(stop(World, p, silent), c)

\* cell c is STOPPED when the i-th event of the call happens
StoppedBy(w, c, i) ==
    \/ state[c] = STOPPED
    \/ \E j \in 1..(i - 1) :
          w.trace[j].e = "state" /\ w.trace[j].c = c /\ w.trace[j].m = <<STOPPED>>

\* every child p had when the call began is STOPPED when p resolves its
\* terminal signal and when p passes ('stopped', p) to exit
ChildrenStoppedFirst(w, p) ==
    \A i \in 1..Len(w.trace) :
        (/\ w.trace[i].c = p
         /\ \/ w.trace[i].e = "resolve"
            \/ w.trace[i].e = "exit" /\ w.trace[i].m = StoppedMsg(p))
            => \A c \in Range(children[p]) : StoppedBy(w, c, i)

\* C24: in stop(P) every child of P is STOPPED before P's terminal signal
\* resolves and before ('stopped', P) is sent
C24_ChildrenStopBeforeParentSignals ==
    \A p \in Cells, silent \in BOOLEAN :
        (Exists(p) /\ Alive(state[p]))
            => ChildrenStoppedFirst(stop(World, p, silent), p)

\* C25: when the body of a procedure cell ends and the cell becomes STOPPED,
\* every child it had that was alive is STOPPED too
C25_BodyEndStopsChildren ==
    [][\A p \in Cells :
          (/\ kind[p] = "actor" /\ Alive(state[p]) /\ state'[p] = STOPPED
           /\ Start(p) \/ Resume(p) \/ Fire(p, ExtValue))
              => \A c \in Range(children[p]) :
                    Alive(state[c]) => state'[c] = STOPPED]_vars

\* C26: after pause(P) every child of P that was RUNNING is PAUSED, and
\* after resume(P) no child of P that is alive is PAUSED
C26_PauseResumePropagate ==
    [][\A p \in Cells :
          /\ (Pause(p) /\ Ok(pause(World, p)))
                => \A c \in Range(children[p]) :
                      state[c] = RUNNING => state'[c] = PAUSED
          /\ (Resume(p) /\ Ok(resume(World, p)))
                => \A c \in Range(children[p]) : state'[c] # PAUSED]_vars

\* the body of cell c ran to its end during the call without raising
BodyReturned(w, c) ==
    \E i \in 1..Len(w.trace) : w.trace[i].e = "return" /\ w.trace[i].c = c

\* the parent of cell c takes messages and every child of c is alive
Settled(c) ==
    /\ parent[c] \in Cells => state[parent[c]] = RUNNING
    /\ \A k \in Range(children[c]) : Alive(state[k])

ReturnReported(w) ==
    \A c \in Cells :
        (Settled(c) /\ BodyReturned(w, c))
            => /\ w.state[c] = STOPPED
               /\ w.exited[c] = <<StoppedMsg(c)>>

\* C27: after any call in which the body of a procedure cell, whose parent
\* takes messages and whose children are alive, runs to its end without
\* raising, the cell is STOPPED and the one terminal message it has sent
\* its parent is ('stopped', cell)
C27_BodyEndStopsAndReports == AfterAnyCall(ReturnReported)

\* Actor.get with an awaiter registered and no queued message for filter f
\* raises QueueUnderflow and leaves the awaiter, which takes the next
\* message it accepts: handle does not queue it
ActorGetSingle ==
    \A c \in Cells, f \in {NoneFilter, "foo", "baz"} :
        (/\ Exists(c) /\ kind[c] = "actor" /\ waiting[c] # NoAwaiter
         /\ \A i \in 1..Len(inbox[c]) : ~Matches(f, inbox[c][i]))
            => /\ Actor_get(World, c, f).ret = "raise"
               /\ Actor_get(World, c, f).w = Throw(World, "QueueUnderflow")
               /\ \A m \in UserMsgs :
                     Matches(waiting[c], m)
                         => Len(Actor_handle(World, c, m).inbox[c]) <= Len(inbox[c])

\* Process.get with an awaiter registered and no queued message equal to
\* match_ raises and leaves the awaiter, which takes the next message it
\* wants
ProcessGetSingle ==
    \A match_ \in ProcessMsgs :
        (get_d # 0 /\ FirstIndex(queue, match_) = 0)
            => /\ Process_get(ProcessWorld, match_).ret = "raise"
               /\ Process_get(ProcessWorld, match_).w = ProcessWorld
               /\ Process_receive(Process_get(ProcessWorld, match_).w,
                                  deferreds[get_d].pattern).deferreds[get_d].result
                      = deferreds[get_d].pattern

\* C28: a get issued while an awaiter is registered and no queued message
\* matches fails at once and the awaiter stays and receives the next
\* matching message, in Actor.get and in Process.get
C28_OneAwaiter == ActorGetSingle /\ ProcessGetSingle

\* C29: cancelling the Deferred of an outstanding get leaves no awaiter; a
\* get that finds no queued message then returns a new Deferred and
\* registers its awaiter, a message handled after the cancellation is
\* queued, and a body that catches the CancelledError goes on to its next
\* get without raising
C29_CancelRemovesAwaiter ==
    \A c \in Cells :
        (Exists(c) /\ waiting[c] # NoAwaiter)
            => /\ get_canceller(World, c).waiting[c] = NoAwaiter
               /\ \A f \in {NoneFilter, "foo", "baz"} :
                     (\A i \in 1..Len(inbox[c]) : ~Matches(f, inbox[c][i]))
                         => /\ Actor_get(get_canceller(World, c), c, f).ret = "deferred"
                            /\ Actor_get(get_canceller(World, c), c, f).w
                                  = [World EXCEPT !.waiting[c] = f]
               /\ \A m \in UserMsgs :
                     Actor_handle(get_canceller(World, c), c, m)
                         = [World EXCEPT !.waiting[c] = NoAwaiter,
                                         !.inbox[c] = Append(@, m)]
               /\ (body[c].onFail = "catch" /\ on_hold_d[c] = "get")
                     => /\ Ok(cancel_get(World, c))
                        /\ \A i \in 1..Len(cancel_get(World, c).trace) :
                              cancel_get(World, c).trace[i].e # "raise"

\* the first get of a body was cancelled before any message came, and its
\* second get has registered a new awaiter
C29_Witness ==
    /\ body[1] = Body(<<Get("baz"), Get(NoneFilter)>>, "exit", "catch")
    /\ state[1] = RUNNING /\ handled[1] = <<>>
    /\ pc[1] = 2 /\ waiting[1] = NoneFilter /\ on_hold_d[1] = "get"

\* no message in the inbox of a cell is one its awaiter accepts
ActorAwaiterStarved ==
    \A c \in Cells :
        waiting[c] # NoAwaiter
            => \A i \in 1..Len(inbox[c]) : ~Matches(waiting[c], inbox[c][i])

\* no message in the queue of the process is one its awaiter wants
ProcessAwaiterStarved ==
    get_d # 0 => \A i \in 1..Len(queue) : ~wants(deferreds[get_d], queue[i])

\* C30: while an awaiter is registered, no queued message matches its
\* filter, in the mailbox of a cell and in that of a process
C30_AwaiterMeansNoMatchQueued == ActorAwaiterStarved /\ ProcessAwaiterStarved

\* a cell waits for 'baz' and a process for a message, each with another
\* message queued
C30_Witness ==
    /\ state[1] = RUNNING /\ waiting[1] = "baz" /\ inbox[1] # <<>>
    /\ get_d # 0 /\ queue # <<>>

\* C31: the number of HighWaterMarkReached events logged so far is the
\* largest queue length reached so far divided by hwm, rounded down
C31_EventCountIsMaxOverHwm == Len(events) = max_queue_len \div hwm

\* C32: receive hands a message the awaiter wants to the awaiter and logs
\* nothing; any other message it appends to the queue, and it logs one
\* event, with the new length, exactly when that length is a positive
\* multiple of hwm; it takes every message
C32_ReceiveLogsAtMultiples ==
    \A msg \in ProcessMsgs :
        IF get_d # 0 /\ deferreds[get_d].pattern = msg
        THEN Process_receive(ProcessWorld, msg)
                = [ProcessWorld EXCEPT !.deferreds[get_d].result = msg,
                                       !.get_d = 0]
        ELSE Process_receive(ProcessWorld, msg)
                = [ProcessWorld EXCEPT
                      !.queue = Append(@, msg),
                      !.events = IF (Len(queue) + 1) % hwm = 0
                                 THEN Append(@, Len(queue) + 1) ELSE @]

\* the queue has grown past the mark, which was logged once, and an awaiter
\* has been handed its message
C32_Witness ==
    /\ Len(queue) = hwm + 1 /\ events = <<hwm>>
    /\ \E i \in 1..Len(deferreds) : deferreds[i].result # Unfired

\* the messages of the events of the trace at the positions in I, in order
MsgsAt(t, I) ==
    [k \in 1..Cardinality(I) |->
        t[CHOOSE i \in I : Cardinality({j \in I : j <= i}) = k].m]

\* the messages handle of cell c was called with during the call, in order
HandledIn(w, c) ==
    MsgsAt(w.trace, {i \in 1..Len(w.trace) :
                        w.trace[i].e = "handle" /\ w.trace[i].c = c})

\* the messages send of cell c accepted during the call, in order; the
\* sends resume makes to replay the pause buffer are left out
AcceptedIn(w, c) ==
    MsgsAt(w.trace, {i \in 1..Len(w.trace) :
                        /\ w.trace[i].e = "send" /\ w.trace[i].c = c
                        /\ ~(i > 1 /\ w.trace[i - 1].e = "replay"
                                   /\ w.trace[i - 1].c = c)})

IsPrefix(s, t) == Len(s) <= Len(t) /\ s = SubSeq(t, 1, Len(s))

InArrivalOrder(w) ==
    \A c \in Cells :
        Exists(c) => IsPrefix(HandledIn(w, c), pending[c] \o AcceptedIn(w, c))

\* C33: in every call, handle of a cell is called with the messages the
\* cell had buffered and then with those send accepted during the call, in
\* that order
C33_HandledInArrivalOrder == AfterAnyCall(InArrivalOrder)

\* cell c has been set to state s when the i-th event of the call happens
SetBy(w, c, s, i) ==
    \E j \in 1..(i - 1) :
        w.trace[j].e = "state" /\ w.trace[j].c = c /\ w.trace[j].m = <<s>>

\* whenever a message reaches handle or the body of p during the call, every
\* child p had when the call began has what the call owes it: a child that
\* was RUNNING is PAUSED (pause), one that was PAUSED is RUNNING (resume),
\* one that was alive is STOPPED (stop)
PropagatedFirst(w, p, from, to) ==
    \A i \in 1..Len(w.trace) :
        (w.trace[i].c = p /\ w.trace[i].e \in {"handle", "body"})
            => \A c \in Range(children[p]) :
                  state[c] \in from => SetBy(w, c, to, i)

\* C34: during pause(P), resume(P) and stop(P) no message reaches the
\* handler or the body of P before the call has reached every child of P
C34_PropagationBeforeDelivery ==
    \A p \in Cells :
        Exists(p) =>
            /\ PropagatedFirst(pause(World, p), p, {RUNNING}, PAUSED)
            /\ PropagatedFirst(resume(World, p), p, {PAUSED}, RUNNING)
            /\ \A silent \in BOOLEAN :
                  PropagatedFirst(stop(World, p, silent), p,
                                  {RUNNING, PAUSED}, STOPPED)

\* when the body of cell c is first called, c is in the child list of p
ListedBeforeRun(w, p, c) ==
    \A i \in 1..Len(w.trace) :
        (w.trace[i].e = "run" /\ w.trace[i].c = c)
            => /\ w.parent[c] = p
               /\ \E j \in 1..(i - 1) :
                     w.trace[j].e = "append" /\ w.trace[j].c = c

\* a child that spawn returns and that has not terminated is RUNNING, has
\* parent p and is in the child list of p
SpawnedChildLinked(w, p, c) ==
    (Ok(w) /\ w.state[c] # STOPPED)
        => /\ w.state[c] = RUNNING /\ w.parent[c] = p
           /\ c \in Range(w.children[p])

\* C35: spawn on a RUNNING cell P of a procedure cell sets its parent and puts it in the
\* child list of P before its body is first called, and returns it RUNNING,
\* with parent P and in the child list unless it has terminated
C35_LinkedBeforeStart ==
    \A p \in Cells, c \in Cells :
        (p # c /\ state[p] = RUNNING /\ ~Exists(c) /\ kind[c] = "actor")
            => /\ ListedBeforeRun(spawn_child(World, p, c), p, c)
               /\ SpawnedChildLinked(spawn_child(World, p, c), p, c)

\* no 'error' message of cell c is passed to exit during the call
NoErrorSent(w, c) ==
    \A i \in 1..Len(w.trace) :
        ~(w.trace[i].e = "exit" /\ w.trace[i].c = c /\ w.trace[i].m[1] = "error")

\* C36: when the Deferred a RUNNING cell awaits fails and its body catches
\* the failure, the failure is thrown into the body, the body goes on
\* from there, and the cell sends no 'error' message
C36_CaughtFailureNotReported ==
    \A c \in Cells :
        (/\ on_hold_d[c] = "ext" /\ state[c] = RUNNING
         /\ body[c].onFail = "catch")
            => /\ Ok(fire_current_d(World, c, ExtFailure))
               /\ fire_current_d(World, c, ExtFailure).trace[1]
                     = [e |-> "throw", c |-> c, m |-> <<>>, s |-> RUNNING]
               /\ fire_current_d(World, c, ExtFailure).pc[c] > pc[c]
               /\ NoErrorSent(fire_current_d(World, c, ExtFailure), c)
               /\ \A m \in Range(fire_current_d(World, c, ExtFailure).exited[c]) :
                     m[1] # "error"

\* the Deferred a running body awaited has failed, and the body has caught
\* the failure and waits in its next get
C36_Witness ==
    /\ body[1] = Body(<<Await, Get("baz"), Get(NoneFilter)>>, "exit", "catch")
    /\ state[1] = RUNNING /\ got[1] = <<>> /\ exited[1] = <<>>
    /\ pc[1] = 2 /\ waiting[1] = "baz"

\* misuse by the caller is raised to the caller and changes nothing: put
\* without a connection, pause of a cell that is not RUNNING, resume of a
\* RUNNING cell
MisuseRejected ==
    \A c \in Cells :
        Exists(c) =>
            /\ out[c] = NoOut
                  => \A m \in UserMsgs : Rejected(put(World, c, m), "NoRoute")
            /\ state[c] # RUNNING => Rejected(pause(World, c), "ActorNotRunning")
            /\ state[c] = RUNNING => Rejected(resume(World, c), "ActorAlreadyRunning")

\* a put without a connection made by the handler of a RUNNING cell sends
\* the parent of the cell no 'error' message
MisuseInHandlerNotEscalated ==
    \A c \in Cells, m \in UserMsgs :
        (/\ Exists(c) /\ state[c] = RUNNING
         /\ body[c].handler = "put" /\ out[c] = NoOut)
            => /\ send(World, c, m).rootMsgs = rootMsgs
               /\ \A i \in 1..Len(send(World, c, m).trace) :
                     send(World, c, m).trace[i].m # ErrorMsg(c, "NoRoute")

\* C37: misuse by the caller is raised to the caller and sends the parent no
\* 'error' message, also when a handler is the caller
C37_MisuseNotEscalated == MisuseRejected /\ MisuseInHandlerNotEscalated

\* C38: a cell waits in get(filter) and message m, which the filter
\* accepts, arrives: the value its body is resumed with is the value the
\* same get returns when m is in the inbox at the time of the call
C38_ScanAndAwaiterAgree ==
    \A c \in Cells, m \in UserMsgs :
        (/\ kind[c] = "actor" /\ state[c] = RUNNING /\ on_hold_d[c] = "get"
         /\ waiting[c] \notin {NoAwaiter, NoneFilter} /\ Matches(waiting[c], m))
            => /\ Len(send(World, c, m).got[c]) > Len(got[c])
               /\ send(World, c, m).got[c][Len(got[c]) + 1]
                     = Actor_get([World EXCEPT !.waiting[c] = NoAwaiter,
                                               !.inbox[c] = Append(@, m)],
                                 c, waiting[c]).v

ReplaysOnce(w, c) ==
    /\ w.exc # Hang
    /\ \A m \in UserMsgs :
          Count(HandledIn(w, c), m) + Count(w.pending[c], m)
              = Count(pending[c], m) + Count(AcceptedIn(w, c), m)
    /\ \A m \in UserMsgs : Count(HandledIn(w, c), m) >= Count(pending[c], m)

\* C40: resume() on a PAUSED cell with buffered messages returns and has
\* dispatched every buffered message exactly once, also when handling a
\* replayed message pauses the cell again or sends a further message to
\* the same cell; no message buffered during the replay is lost
C40_ReplayTerminatesAndDeliversOnce ==
    \A c \in Cells :
        (Exists(c) /\ state[c] = PAUSED /\ pending[c] # <<>>)
            => ReplaysOnce(resume(World, c), c)
====
